---- MODULE Spec2Model ----
(***************************************************************************)
(* Model of the P-chain complexity analysis of main.go: the peak detector  *)
(* (findPeaks), the per-dimension ranker (findAllDimensionPeaks), the rate *)
(* estimator (targetComplexityRate, derivatives) and the fee replay        *)
(* (calculateFeeData).                                                     *)
(*                                                                         *)
(* Go slices are 0-based; sequences here are 1-based, so the Go element    *)
(* s[i] is At(s, i) == s[i + 1].  Loop counters keep their Go values.      *)
(* uint64 arithmetic is modelled on the naturals: within the bounds below  *)
(* no product or sum comes near 2^64, and times are non-decreasing, so no  *)
(* subtraction wraps.                                                      *)
(***************************************************************************)
EXTENDS Integers, Sequences, FiniteSets, TLC

\* ---------------------------------------------------------------- bounds
\* longest heightsAndTimes / trace handed to findPeaks
MaxLen ==
    4
\* largest gap in seconds between two consecutive blocks
MaxDt ==
    2

\* values a trace takes, caps and target rates findPeaks is called with
TraceValues ==
    {0, 5, 10}
Caps ==
    {7, 100}
Rates ==
    {0, 5}

VARIABLES
    heightsAndTimes,  \* findPeaks argument: sequence of BlkHeightTime
    trace,            \* findPeaks argument: the dimension's values
    cap,              \* findPeaks argument
    medianRate,       \* findPeaks argument
    i,                \* findPeaks loop counter (Go index)
    res,              \* findPeaks: the peaks found so far
    peakStarted,      \* findPeaks: a peak is open
    pc,               \* position in the function that is running
    records,          \* the []rawData the analysis runs on (main.go:37-41)
    maxComplexities,       \* findAllDimensionPeaks argument
    medianComplexityRate,  \* findAllDimensionPeaks argument
    peaksCount,            \* findAllDimensionPeaks argument
    dim,                   \* findAllDimensionPeaks: dimension being scanned
    intervals,             \* findAllDimensionPeaks: findPeaks' result per dimension
    topPeaks,              \* findAllDimensionPeaks: the returned slices
    minHeight,             \* targetComplexityRate argument
    quantile,              \* targetComplexityRate argument, as a fraction
    recordsToProcess,      \* targetComplexityRate: the filtered records
    timeSteps,             \* derivatives: time steps
    derivs,                \* derivatives: per dimension, the rates as fractions
    medianBlockDelay,      \* targetComplexityRate result
    targetComplexities,    \* targetComplexityRate result
    excessGas,             \* calculateFeeData: excess gas carried to the next block
    feeRes                 \* calculateFeeData: the fee samples appended so far

peakVars ==
    <<heightsAndTimes, trace, cap, medianRate, i, res, peakStarted>>

allVars ==
    <<maxComplexities, medianComplexityRate, peaksCount, dim, intervals, topPeaks>>

rateVars ==
    <<minHeight, quantile, recordsToProcess, timeSteps, derivs, medianBlockDelay,
      targetComplexities>>

feeVars ==
    <<excessGas, feeRes>>

\* what findPeaks neither reads nor writes
outside ==
    <<records, allVars, rateVars, feeVars>>

vars ==
    <<peakVars, pc, records, allVars, rateVars, feeVars>>

\* ---------------------------------------------------------------- helpers
At(s, k) ==
    s[k + 1]

Max(a, b) ==
    IF a >= b THEN a ELSE b

Min(a, b) ==
    IF a <= b THEN a ELSE b

RECURSIVE SumTo(_, _)
SumTo(f, k) ==
    IF k = 0 THEN 0 ELSE f[k] + SumTo(f, k - 1)

\* BlkHeightTime sequence with heights 1..n and the given gaps between times
MkHeightsAndTimes(n, dts) ==
    [k \in 1..n |-> [Height |-> k, Time |-> SumTo(dts, k - 1)]]

\* ---------------------------------------------------------------- findPeaks
\* main.go:246  medianValue := min(cap, medianRate*max(1, dt))
MedianValue(k) ==
    Min(cap, medianRate * Max(1, At(heightsAndTimes, k).Time - At(heightsAndTimes, k - 1).Time))

\* main.go:254-261  the interval a peak opens with
NewIntervalFirstBlock(k) ==
    [LowTimestamp        |-> At(heightsAndTimes, k).Time,
     UpTimestamp         |-> At(heightsAndTimes, k).Time,
     CumulatedComplexity |-> At(trace, k),
     StartHeight         |-> At(heightsAndTimes, 0).Height,
     BlocksCount         |-> 1,
     ElapsedTime         |-> 0]

NewIntervalNoBlock(k) ==
    [LowTimestamp        |-> At(heightsAndTimes, k).Time,
     UpTimestamp         |-> At(heightsAndTimes, k).Time,
     CumulatedComplexity |-> At(trace, k),
     StartHeight         |-> At(heightsAndTimes, k).Height,
     BlocksCount         |-> 0,
     ElapsedTime         |-> 0]

NewInterval(k) ==
    [LowTimestamp        |-> At(heightsAndTimes, k).Time,
     UpTimestamp         |-> At(heightsAndTimes, k).Time,
     CumulatedComplexity |-> At(trace, k),
     StartHeight         |-> At(heightsAndTimes, k).Height,
     BlocksCount         |-> 1,
     ElapsedTime         |-> 0]

\* main.go:264-269  the open interval extended by block k
ContinuedInterval(interval, k) ==
    [interval EXCEPT
        !.UpTimestamp         = At(heightsAndTimes, k).Time,
        !.CumulatedComplexity = interval.CumulatedComplexity + At(trace, k),
        !.BlocksCount         = interval.BlocksCount + 1,
        !.ElapsedTime         = At(heightsAndTimes, k).Time - interval.LowTimestamp]

FinishedIntervalUpTime(interval, k) ==
    [interval EXCEPT
        !.ElapsedTime = Max(1, interval.UpTimestamp - interval.LowTimestamp)]

\* main.go:272-274  the open interval closed by block k
FinishedInterval(interval, k) ==
    [interval EXCEPT
        !.ElapsedTime = Max(1, At(heightsAndTimes, k).Time - interval.LowTimestamp)]

ReplaceLast(s, e) ==
    [s EXCEPT ![Len(s)] = e]

\* main.go:288-289  float64(CumulatedComplexity) / float64(ElapsedTime):
\* IEEE division, so x/0 is +Inf for x > 0 and 0/0 is NaN.  Finite quotients
\* are kept as fractions; the bounds keep them far apart enough that the
\* rounding of the division cannot merge two different ones.
PeakPower(p) ==
    IF p.ElapsedTime = 0
    THEN IF p.CumulatedComplexity = 0
         THEN [kind |-> "NaN", num |-> 0, den |-> 1]
         ELSE [kind |-> "Inf", num |-> 0, den |-> 1]
    ELSE [kind |-> "fin", num |-> p.CumulatedComplexity, den |-> p.ElapsedTime]

\* IEEE x < y on the powers above (every comparison with NaN is false)
FloatLess(x, y) ==
    CASE x.kind = "NaN" \/ y.kind = "NaN" -> FALSE
      [] x.kind = "Inf"                   -> FALSE
      [] y.kind = "Inf"                   -> TRUE
      [] OTHER                            -> x.num * y.den < y.num * x.den

LessDescending(a, b) ==
    CASE a.CumulatedComplexity > b.CumulatedComplexity -> TRUE
      [] a.CumulatedComplexity < b.CumulatedComplexity -> FALSE
      [] OTHER -> FloatLess(PeakPower(b), PeakPower(a))

\* main.go:280-292  the comparator handed to sort.Slice
Less(a, b) ==
    CASE a.CumulatedComplexity < b.CumulatedComplexity -> TRUE
      [] a.CumulatedComplexity > b.CumulatedComplexity -> FALSE
      [] OTHER -> FloatLess(PeakPower(a), PeakPower(b))

Permutations1(n) ==
    {f \in [1..n -> 1..n] : \A a, b \in 1..n : a # b => f[a] # f[b]}

\* main.go:280  sort.Slice is not stable: it may return any arrangement of
\* the slice in which no element is Less than one placed before it.
SortSliceResults(s) ==
    {t \in {[k \in 1..Len(s) |-> s[f[k]]] : f \in Permutations1(Len(s))} :
        \A a, b \in 1..Len(t) : a < b => ~Less(t[b], t[a])}

\* main.go:235-244  the length check (log.Fatal), then the locals
FindPeaksEnter ==
    /\ pc = "enter"
    /\ IF Len(heightsAndTimes) # Len(trace)
       THEN /\ pc' = "fatal"
            /\ UNCHANGED <<i, res, peakStarted>>
       ELSE /\ res' = <<>>
            /\ peakStarted' = FALSE
            /\ i' = 1
            /\ pc' = "scan"
    /\ UNCHANGED <<heightsAndTimes, trace, cap, medianRate, outside>>

\* main.go:248-249
PeakIdle ==
    /\ pc = "scan"
    /\ i < Len(trace)
    /\ ~peakStarted /\ At(trace, i) < MedianValue(i)
    /\ i' = i + 1
    /\ UNCHANGED <<heightsAndTimes, trace, cap, medianRate, res, peakStarted, pc, outside>>

\* main.go:250-262
PeakStart ==
    /\ pc = "scan"
    /\ i < Len(trace)
    /\ ~peakStarted /\ At(trace, i) >= MedianValue(i)
    /\ peakStarted' = TRUE
    /\ res' = Append(res, NewInterval(i))
    /\ i' = i + 1
    /\ UNCHANGED <<heightsAndTimes, trace, cap, medianRate, pc, outside>>

\* main.go:263-269
PeakContinue ==
    /\ pc = "scan"
    /\ i < Len(trace)
    /\ peakStarted /\ At(trace, i) > MedianValue(i)
    /\ res' = ReplaceLast(res, ContinuedInterval(res[Len(res)], i))
    /\ i' = i + 1
    /\ UNCHANGED <<heightsAndTimes, trace, cap, medianRate, peakStarted, pc, outside>>

\* main.go:271-275
PeakFinish ==
    /\ pc = "scan"
    /\ i < Len(trace)
    /\ peakStarted /\ At(trace, i) <= MedianValue(i)
    /\ res' = ReplaceLast(res, FinishedInterval(res[Len(res)], i))
    /\ peakStarted' = FALSE
    /\ i' = i + 1
    /\ UNCHANGED <<heightsAndTimes, trace, cap, medianRate, pc, outside>>

\* main.go:279-294  the loop is over: sort and return
PeakSort ==
    /\ pc = "scan"
    /\ ~(i < Len(trace))
    /\ res' \in SortSliceResults(res)
    /\ pc' = "sorted"
    /\ UNCHANGED <<heightsAndTimes, trace, cap, medianRate, i, peakStarted, outside>>

FindPeaksStep ==
    \/ FindPeaksEnter
    \/ PeakIdle
    \/ PeakStart
    \/ PeakContinue
    \/ PeakFinish
    \/ PeakSort

\* ------------------------------------------------------------- records
\* main.go:178-183  a complexity vector has one slot per fee dimension:
\* Bandwidth, DBRead, DBWrite, Compute (Go indexes 0..3)
FeeDimensions ==
    4

\* commonfee.Empty
Empty ==
    <<0, 0, 0, 0>>

\* complexity vectors a block takes
ComplexityVectors ==
    {Empty, <<10, 5, 0, 20>>, <<5, 10, 20, 0>>}

\* complexity vectors of the blocks the peaks are searched in
PeakVectors ==
    {<<0, 10, 0, 5>>, <<10, 5, 0, 20>>}

\* rawData sequence with heights 1..n (the opaque block ID is left out)
MkRecords(n, dts, cs) ==
    [k \in 1..n |-> [Height |-> k, Time |-> SumTo(dts, k - 1), Complexity |-> cs[k]]]

RecordInputs(maxN, vectors) ==
    UNION {{MkRecords(n, dts, cs) : dts \in [1..(n - 1) -> 0..MaxDt], cs \in [1..n -> vectors]} :
             n \in 1..maxN}

\* main.go:540-546
PullTimesHeightsFromRecords(rs) ==
    [k \in 1..Len(rs) |-> [Height |-> rs[k].Height, Time |-> rs[k].Time]]

\* main.go:548-554
PullComplexityFromRecords(rs, d) ==
    [k \in 1..Len(rs) |-> At(rs[k].Complexity, d)]

\* variables a specification does not use keep these values
IdlePeaks ==
    /\ heightsAndTimes = <<>> /\ trace = <<>> /\ cap = 0 /\ medianRate = 0
    /\ i = 0 /\ res = <<>> /\ peakStarted = FALSE

IdleAll ==
    /\ maxComplexities = Empty /\ medianComplexityRate = Empty /\ peaksCount = 0
    /\ dim = 0 /\ intervals = <<>> /\ topPeaks = <<>>

IdleRate ==
    /\ minHeight = 0 /\ quantile = [num |-> 0, den |-> 1] /\ recordsToProcess = <<>>
    /\ timeSteps = <<>> /\ derivs = <<>> /\ medianBlockDelay = 0
    /\ targetComplexities = Empty

IdleFee ==
    /\ excessGas = 0 /\ feeRes = <<>>

\* ------------------------------------------------- findPeaks called alone
\* arguments of equal length, and a few of unequal length
InitPeaks ==
    /\ \E n \in 1..MaxLen :
         \E dts \in [1..(n - 1) -> 0..MaxDt] :
           /\ heightsAndTimes = MkHeightsAndTimes(n, dts)
           /\ \/ trace \in [1..n -> TraceValues]
              \/ n = 2 /\ trace \in [1..1 -> TraceValues]
    /\ cap \in Caps
    /\ medianRate \in Rates
    /\ i = 0
    /\ res = <<>>
    /\ peakStarted = FALSE
    /\ pc = "enter"
    /\ records = <<>>
    /\ IdleAll /\ IdleRate /\ IdleFee

NextPeaks ==
    FindPeaksStep

SpecPeaks ==
    InitPeaks /\ [][NextPeaks]_vars

\* ---------------------------------------------------- findAllDimensionPeaks
\* longest record sequence
MaxRecords ==
    4
\* largest peaksCount
MaxPeaksCount ==
    2

MaxComplexitiesInputs ==
    {<<100, 100, 100, 7>>}

RateInputs ==
    {<<5, 5, 5, 5>>}

TopSliceHead(s, k) ==
    SubSeq(s, 1, Min(k, Len(s)))

\* main.go:222-225  s[max(0, len(s)-peaksCount):]
TopSlice(s, k) ==
    SubSeq(s, Max(0, Len(s) - k) + 1, Len(s))

\* main.go:208-216  pull the slices and call findPeaks on Bandwidth
FindAllDimensionPeaksEnter ==
    /\ pc = "all"
    /\ heightsAndTimes' = PullTimesHeightsFromRecords(records)
    /\ dim' = 0
    /\ trace' = PullComplexityFromRecords(records, 0)
    /\ cap' = At(maxComplexities, 0)
    /\ medianRate' = At(medianComplexityRate, 0)
    /\ pc' = "enter"
    /\ UNCHANGED <<i, res, peakStarted, records, maxComplexities, medianComplexityRate,
                   peaksCount, intervals, topPeaks, rateVars, feeVars>>

\* main.go:216-219  a findPeaks call returned: keep its result, call the next
FindPeaksNextDimension ==
    /\ pc = "sorted"
    /\ dim + 1 < FeeDimensions
    /\ intervals' = Append(intervals, res)
    /\ dim' = dim + 1
    /\ trace' = PullComplexityFromRecords(records, dim + 1)
    /\ cap' = At(maxComplexities, dim + 1)
    /\ medianRate' = At(medianComplexityRate, dim + 1)
    /\ pc' = "enter"
    /\ UNCHANGED <<heightsAndTimes, i, res, peakStarted, records, maxComplexities,
                   medianComplexityRate, peaksCount, topPeaks, rateVars, feeVars>>

\* main.go:219-226  the last findPeaks call returned: slice and return
FindAllDimensionPeaksReturn ==
    /\ pc = "sorted"
    /\ dim + 1 = FeeDimensions
    /\ intervals' = Append(intervals, res)
    /\ topPeaks' = [d \in 1..FeeDimensions |-> TopSlice(intervals'[d], peaksCount)]
    /\ pc' = "returned"
    /\ UNCHANGED <<peakVars, records, maxComplexities, medianComplexityRate, peaksCount,
                   dim, rateVars, feeVars>>

InitAll ==
    /\ records \in RecordInputs(MaxRecords, PeakVectors)
    /\ maxComplexities \in MaxComplexitiesInputs
    /\ medianComplexityRate \in RateInputs
    /\ peaksCount \in 0..MaxPeaksCount
    /\ dim = 0 /\ intervals = <<>> /\ topPeaks = <<>>
    /\ IdlePeaks /\ IdleRate /\ IdleFee
    /\ pc = "all"

NextAll ==
    \/ FindAllDimensionPeaksEnter
    \/ FindPeaksStep
    \/ FindPeaksNextDimension
    \/ FindAllDimensionPeaksReturn

SpecAll ==
    InitAll /\ [][NextAll]_vars

\* ------------------------------------------------- targetComplexityRate
\* longest record sequence handed to targetComplexityRate
MaxRateRecords ==
    3

\* minHeight arguments
MinHeights ==
    {0, 2}

\* quantile arguments, as fractions: 0.5, 0.99 (the one main uses) and 1.0
Quantiles ==
    {[num |-> 1, den |-> 2], [num |-> 99, den |-> 100], [num |-> 1, den |-> 1]}

SkipEmptyRecordsKeepAll(rs) ==
    rs

\* main.go:567-576
SkipEmptyRecords(rs) ==
    LET NotEmpty(r) == r.Complexity # Empty
    IN  SelectSeq(rs, NotEmpty)

\* main.go:579-587  (maxHeight is math.MaxUint64 where it is called here)
FilterRecordsByHeight(rs, lowest) ==
    LET InRange(r) == r.Height >= lowest
    IN  SelectSeq(rs, InRange)

\* main.go:367-370  dX
TimeStep(rs, k) ==
    LET dX == At(rs, k).Time - At(rs, k - 1).Time
    IN  IF dX = 0 THEN 1 ELSE dX

\* main.go:366-376  timeSteps, over the Go indexes 1..len-1
DerivativeTimeSteps(rs) ==
    [k \in 1..(Len(rs) - 1) |-> TimeStep(rs, k)]

\* main.go:372-375  float64(complexity) / float64(dX), kept as a fraction
DerivativeOf(rs, d) ==
    [k \in 1..(Len(rs) - 1) |->
        [num |-> At(At(rs, k).Complexity, d), den |-> TimeStep(rs, k)]]

FractionLeq(x, y) ==
    x.num * y.den <= y.num * x.den

RECURSIVE InsertSorted(_, _)
InsertSorted(s, e) ==
    IF s = <<>> THEN <<e>>
    ELSE IF FractionLeq(e, Head(s)) THEN <<e>> \o s
         ELSE <<Head(s)>> \o InsertSorted(Tail(s), e)

RECURSIVE SortFloat64s(_)
\* main.go:320  sort.Float64s: ascending; equal floats are indistinguishable,
\* so the sorted values are determined
SortFloat64s(s) ==
    IF s = <<>> THEN <<>>
    ELSE InsertSorted(SortFloat64s(Tail(s)), Head(s))

\* main.go:316  sort.Slice on the uint64 time steps, ascending
SortTimeSteps(s) ==
    LET asFractions == [k \in 1..Len(s) |-> [num |-> s[k], den |-> 1]]
        sorted      == SortFloat64s(asFractions)
    IN  [k \in 1..Len(s) |-> sorted[k].num]

\* main.go:317  int(float64(len) * 0.5)
MedianIndex(n) ==
    n \div 2

\* main.go:321  int(float64(len) * quantile); quantile is num/den with small
\* terms, so the float product truncates like the exact one
QuantileIndex(n, q) ==
    (n * q.num) \div q.den

\* main.go:322  uint64(deriv[q])
TruncateToUint(x) ==
    x.num \div x.den

\* main.go:311-312
TargetFilter ==
    /\ pc = "rate"
    /\ recordsToProcess' = FilterRecordsByHeight(SkipEmptyRecords(records), minHeight)
    /\ pc' = "derivatives"
    /\ UNCHANGED <<peakVars, records, allVars, feeVars, minHeight, quantile, timeSteps,
                   derivs, medianBlockDelay, targetComplexities>>

\* main.go:314, 359-379  make([]uint64, 0, len(records)-1) panics on a
\* negative capacity, that is on no record at all
Derivatives ==
    /\ pc = "derivatives"
    /\ IF Len(recordsToProcess) = 0
       THEN /\ pc' = "panic"
            /\ UNCHANGED <<timeSteps, derivs>>
       ELSE /\ timeSteps' = DerivativeTimeSteps(recordsToProcess)
            /\ derivs' = [d \in 1..FeeDimensions |-> DerivativeOf(recordsToProcess, d - 1)]
            /\ pc' = "median"
    /\ UNCHANGED <<peakVars, records, allVars, feeVars, minHeight, quantile,
                   recordsToProcess, medianBlockDelay, targetComplexities>>

\* main.go:316-318  timeSteps[q] panics when q is out of range
TargetMedian ==
    /\ pc = "median"
    /\ LET sorted == SortTimeSteps(timeSteps)
           q      == MedianIndex(Len(timeSteps))
       IN  /\ timeSteps' = sorted
           /\ IF q < Len(sorted)
              THEN /\ medianBlockDelay' = At(sorted, q)
                   /\ pc' = "quantile"
              ELSE /\ pc' = "panic"
                   /\ UNCHANGED medianBlockDelay
    /\ UNCHANGED <<peakVars, records, allVars, feeVars, minHeight, quantile,
                   recordsToProcess, derivs, targetComplexities>>

\* main.go:320-336  the four dimensions in turn; the four slices have one
\* length, so an index out of range panics at the first of them
TargetQuantiles ==
    /\ pc = "quantile"
    /\ LET sorted == [d \in 1..FeeDimensions |-> SortFloat64s(derivs[d])]
           q      == QuantileIndex(Len(derivs[1]), quantile)
       IN  /\ IF q < Len(derivs[1])
              THEN /\ derivs' = sorted
                   /\ targetComplexities' =
                          [d \in 1..FeeDimensions |-> TruncateToUint(At(sorted[d], q))]
                   /\ pc' = "done"
              ELSE /\ derivs' = [derivs EXCEPT ![1] = sorted[1]]
                   /\ pc' = "panic"
                   /\ UNCHANGED targetComplexities
    /\ UNCHANGED <<peakVars, records, allVars, feeVars, minHeight, quantile,
                   recordsToProcess, timeSteps, medianBlockDelay>>

InitRate ==
    /\ records \in RecordInputs(MaxRateRecords, ComplexityVectors)
    /\ minHeight \in MinHeights
    /\ quantile \in Quantiles
    /\ recordsToProcess = <<>> /\ timeSteps = <<>> /\ derivs = <<>>
    /\ medianBlockDelay = 0 /\ targetComplexities = Empty
    /\ IdlePeaks /\ IdleAll /\ IdleFee
    /\ pc = "rate"

NextRate ==
    \/ TargetFilter
    \/ Derivatives
    \/ TargetMedian
    \/ TargetQuantiles

SpecRate ==
    InitRate /\ [][NextRate]_vars

\* ------------------------------------------------------ calculateFeeData
\* longest record sequence replayed
MaxFeeRecords ==
    3

\* fees the pricing policy quotes (commonfee, external to this repository)
Fees ==
    {1, 2}

FeeDataOfParent(k, fee) ==
    [Height   |-> At(records, Max(0, k - 1)).Height,
     Time     |-> At(records, Max(0, k - 1)).Time,
     gasPrice |-> excessGas,
     fee      |-> fee]

\* main.go:68-72, 107-111  the sample appended for records[k].  The gas price
\* is the policy's function of the excess gas its manager was built from, and
\* is recorded as that excess gas; the fee is whatever the policy quotes.
FeeDataOf(k, fee) ==
    [Height   |-> At(records, k).Height,
     Time     |-> At(records, k).Time,
     gasPrice |-> excessGas,
     fee      |-> fee]

\* main.go:50-72  the first block, on a fresh calculator.  The excess gas the
\* policy hands back is opaque: it is recorded as the height of the block
\* whose manager produced it.
FeeFirst ==
    /\ pc = "fee"
    /\ \E fee \in Fees :
         feeRes' = Append(feeRes, FeeDataOf(0, fee))
    /\ excessGas' = At(records, 0).Height
    /\ i' = 1
    /\ pc' = "feeLoop"
    /\ UNCHANGED <<heightsAndTimes, trace, cap, medianRate, res, peakStarted, records,
                   allVars, rateVars>>

\* main.go:73-112  one iteration of the loop, the policy reporting no error
FeeNext ==
    /\ pc = "feeLoop"
    /\ i < Len(records)
    /\ \E fee \in Fees :
         feeRes' = Append(feeRes, FeeDataOf(i, fee))
    /\ excessGas' = At(records, i).Height
    /\ i' = i + 1
    /\ UNCHANGED <<heightsAndTimes, trace, cap, medianRate, res, peakStarted, records,
                   allVars, rateVars, pc>>

\* main.go:53-66, 89-105  any of the policy's calls reports an error: panic
FeePanic ==
    /\ \/ pc = "fee"
       \/ pc = "feeLoop" /\ i < Len(records)
    /\ pc' = "panic"
    /\ UNCHANGED <<peakVars, records, allVars, rateVars, feeVars>>

\* main.go:114
FeeReturn ==
    /\ pc = "feeLoop"
    /\ ~(i < Len(records))
    /\ pc' = "feeReturned"
    /\ UNCHANGED <<peakVars, records, allVars, rateVars, feeVars>>

InitFee ==
    /\ records \in RecordInputs(MaxFeeRecords, PeakVectors)
    /\ excessGas = 0 /\ feeRes = <<>>
    /\ IdlePeaks /\ IdleAll /\ IdleRate
    /\ pc = "fee"

NextFee ==
    \/ FeeFirst
    \/ FeeNext
    \/ FeePanic
    \/ FeeReturn

SpecFee ==
    InitFee /\ [][NextFee]_vars

\* ------------------------------------------------------ claims: findPeaks
\* the blocks (as heights) an interval covers
BlockRange(p) ==
    p.StartHeight..(p.StartHeight + p.BlocksCount - 1)

\* p is at least as strong as q: more cumulated complexity, or as much and
\* at least the power (cumulated complexity / elapsed time)
AtLeastAsStrong(p, q) ==
    \/ p.CumulatedComplexity > q.CumulatedComplexity
    \/ /\ p.CumulatedComplexity = q.CumulatedComplexity
       /\ p.CumulatedComplexity * q.ElapsedTime >= q.CumulatedComplexity * p.ElapsedTime

\* spec section 8: heights 1..4, times 0..3, values 0,10,10,0, cap 100, rate 5
ScenarioInput ==
    /\ heightsAndTimes = <<[Height |-> 1, Time |-> 0], [Height |-> 2, Time |-> 1],
                           [Height |-> 3, Time |-> 2], [Height |-> 4, Time |-> 3]>>
    /\ trace = <<0, 10, 10, 0>>
    /\ cap = 100
    /\ medianRate = 5

ScenarioPeak(elapsed) ==
    [LowTimestamp |-> 1, UpTimestamp |-> 2, CumulatedComplexity |-> 20,
     StartHeight |-> 2, BlocksCount |-> 2, ElapsedTime |-> elapsed]

\* C1 as stated: on the scenario input findPeaks returns exactly one interval,
\* with start_height 2, block_count 2, cumulated_complexity 20, elapsed_time 1.
C1_ScenarioElapsedOne ==
    (ScenarioInput /\ pc = "sorted") =>
        /\ Len(res) = 1
        /\ res[1].StartHeight = 2
        /\ res[1].BlocksCount = 2
        /\ res[1].CumulatedComplexity = 20
        /\ res[1].ElapsedTime = 1

\* C1 amended: on the scenario input findPeaks returns exactly one interval,
\* with start_height 2, block_count 2, cumulated_complexity 20 and
\* elapsed_time 2 (the closing block at time 3 minus the start time 1).
C1_ScenarioElapsedTwo ==
    (ScenarioInput /\ pc = "sorted") => res = <<ScenarioPeak(2)>>

C1_Witness ==
    ScenarioInput /\ pc = "sorted" /\ Len(res) = 1

\* C2 as stated: the returned sequence is ordered by descending cumulated
\* complexity (index 0 the largest) and, among equal ones, by descending power.
C2_DescendingOrder ==
    pc = "sorted" =>
        \A a, b \in 1..Len(res) : a < b => AtLeastAsStrong(res[a], res[b])

\* C4: any two distinct intervals findPeaks returns cover disjoint block
\* ranges [start_height, start_height + block_count - 1].
C4_DisjointRanges ==
    pc = "sorted" =>
        \A a, b \in 1..Len(res) :
            a # b => BlockRange(res[a]) \cap BlockRange(res[b]) = {}

C4_Witness ==
    /\ pc = "sorted"
    /\ Len(res) >= 2

\* C8: at every step of the scan and in the result, every interval has
\* block_count >= 1, end_time >= start_time and elapsed_time >= 0.
C8_IntervalInvariant ==
    \A a \in 1..Len(res) :
        /\ res[a].BlocksCount >= 1
        /\ res[a].UpTimestamp >= res[a].LowTimestamp
        /\ res[a].ElapsedTime >= 0

C8_Witness ==
    /\ pc = "sorted"
    /\ \E a \in 1..Len(res) :
         res[a].BlocksCount >= 2 /\ res[a].UpTimestamp > res[a].LowTimestamp

\* the Go indexes of the blocks that are members of interval p
Members(p) ==
    {k \in 1..(Len(trace) - 1) : At(heightsAndTimes, k).Height \in BlockRange(p)}

\* C9 as stated: the intervals are the maximal runs of blocks (Go index >= 1)
\* with trace[i] >= threshold_i: each such block is in exactly one interval,
\* every member is such a block, and the block after an interval's last
\* member is below its threshold.
C9_MaximalRuns ==
    pc = "sorted" =>
        /\ \A k \in 1..(Len(trace) - 1) :
              At(trace, k) >= MedianValue(k) =>
                  Cardinality({a \in 1..Len(res) : k \in Members(res[a])}) = 1
        /\ \A a \in 1..Len(res) :
              /\ \A k \in Members(res[a]) : At(trace, k) >= MedianValue(k)
              /\ \A k \in 1..(Len(trace) - 1) :
                    (k - 1 \in Members(res[a]) /\ k \notin Members(res[a]))
                        => At(trace, k) < MedianValue(k)

\* C10 as stated: every interval handed to the sort comparator has
\* elapsed_time >= 1, the one still open at the end of the trace included,
\* so the power never divides by zero.
C10_ElapsedAtLeastOne ==
    (pc = "sorted" /\ Len(res) >= 2) =>
        \A a \in 1..Len(res) : res[a].ElapsedTime >= 1

\* ------------------------------------------ claims: findAllDimensionPeaks
Range(s) ==
    {s[k] : k \in 1..Len(s)}

C5_OneSamplePerRecord ==
    pc = "feeReturned" =>
        /\ Len(feeRes) = Len(records)
        /\ \A k \in 1..Len(records) :
              feeRes[k].Height = records[k].Height /\ feeRes[k].Time = records[k].Time

C5_Witness ==
    pc = "feeReturned" /\ Len(records) >= 3 /\ Len(feeRes) >= 3

\* ----------------------------------------- claims: targetComplexityRate
\* the records that are not all-zero and have height >= minHeight, in order
QualifyingRecords ==
    LET Qualifies(r) == r.Complexity # Empty /\ r.Height >= minHeight
    IN  SelectSeq(records, Qualifies)

\* floor of complexity[k][d] / max(1, time[k] - time[k-1]) over the
\* consecutive pairs of qualifying records (d and k are Go indexes)
PairRates(d) ==
    LET q == QualifyingRecords
    IN  {At(At(q, k).Complexity, d) \div Max(1, At(q, k).Time - At(q, k - 1).Time) :
            k \in 1..(Len(q) - 1)}

SetMax(S) ==
    CHOOSE x \in S : \A y \in S : y <= x

\* C6 as stated: with at least 2 qualifying records and quantile = 1.0 the
\* call returns, for each dimension, the maximum rate over the consecutive
\* pairs of qualifying records (the index clamped to length - 1).
C6_QuantileOneIsMaximum ==
    (/\ quantile = [num |-> 1, den |-> 1]
     /\ Len(QualifyingRecords) >= 2
     /\ pc \in {"done", "panic"})
        => /\ pc = "done"
           /\ \A d \in 1..FeeDimensions : targetComplexities[d] = SetMax(PairRates(d - 1))

====
